---- MODULE Spec2Model ----
(***************************************************************************)
(* Offline-first persistence of the mushroom environmental controller      *)
(* (src/app.py): DatabaseService with a local MongoDB store, a MongoDB     *)
(* Atlas replica, the acquisition loop (sensor_monitor) and the health     *)
(* monitor (database_health_monitor), which run on two threads.            *)
(*                                                                         *)
(* A document of db.readings is identified by its server_timestamp (the    *)
(* device_id is the constant DEVICE_ID).  Truth tests of pymongo Database  *)
(* objects (`if self.local_mongo_db:`) are read as `is not None`.          *)
(***************************************************************************)
EXTENDS Integers, Sequences, FiniteSets, TLC

\* ---- bounds of the model ------------------------------------------------
MaxSaves == 2        \* save_reading calls in one behaviour
MaxRestarts == 1     \* process restarts in one behaviour
MaxTimers == 1       \* fogger timers pending at one time

\* ---- values -------------------------------------------------------------
None == 0            \* Python None as a return value / missing id

\* SensorService.current_data as constructed (app.py 523-531)
DefaultReading ==
    [temperature |-> 22, humidity |-> 65, co2 |-> 400, light_intensity |-> 500,
     water_level |-> 75]

\* MUSHROOM_CONFIG (config.py 38-60)
humidity_min == 80
humidity_max == 95
fogger_duration == 30
on_hour == 6
off_hour == 18

\* the readings and hours around the thresholds of auto_control_environment
HumidityValues == {74, 75, 95, 100, 101}
WaterValues == {14, 15, 20, 21}
HourValues == {5, 6, 18}

ControlReadings ==
    [temperature : {22}, humidity : HumidityValues, co2 : {400},
     light_intensity : {500}, water_level : WaterValues]

\* what the control API accepts: any speed, and a duration or none
FanSpeeds == {0, 30, 75}
Durations == {None, fogger_duration}

\* the readings the sensors deliver in the behaviours of the store
StoreReadings ==
    {DefaultReading,
     [temperature |-> 21, humidity |-> 82, co2 |-> 800, light_intensity |-> 300,
      water_level |-> 50]}

\* the readings get_sensor_data can return, by sensor_range
sensor_values(range) ==
    CASE range = "constant" -> {DefaultReading}
      [] range = "varying" -> StoreReadings
      [] range = "thresholds" -> ControlReadings

VARIABLES
    localUp,           \* environment: the local mongod answers
    atlasUp,           \* environment: MongoDB Atlas answers
    sensor_range,      \* environment: what the sensors can deliver ("constant",
                       \* "varying" or "thresholds")
    local_readings,    \* local_mongo_db.readings, in insertion order (persistent)
    atlas_readings,    \* atlas_mongo_db.readings, in insertion order (persistent)
    simulation_data,   \* self.simulation_data (in-memory fallback list)
    local_mongo_db,    \* self.local_mongo_db is not None
    atlas_mongo_db,    \* self.atlas_mongo_db is not None
    using_atlas,       \* self.using_atlas
    now,               \* datetime.utcnow(), as a counter
    started,           \* main() has started the two background threads
    restarts,          \* number of process restarts so far
    nSaves,            \* number of save_reading calls so far
    sensor_data,       \* sensor_monitor: the reading of this cycle
    acqpc,             \* position of sensor_monitor
    result,            \* save_reading: result.inserted_id
    ret,               \* save_reading: the value returned to sensor_monitor
    status_update,     \* the status_update event emitted in this cycle
    monpc,             \* position of __init__ / database_health_monitor
    unsynced_data,     \* sync_offline_data: list(find(...)), as timestamps
    sync_i,            \* sync_offline_data: documents of unsynced_data inserted so far
    before,            \* history: Len(local_readings) when save_reading was called
    local_available,   \* history: the local insert of this save_reading succeeded
    atlas_save,        \* history: the forward of this save_reading ("none", "ok", "failed")
    remarked,          \* history: the update_one of this save_reading found its
                       \* document marked already
    replicaFault,      \* history: a forward failed and no probe has succeeded since
    catch_up,          \* history: "quiet" while no step of save_reading has run since the
                       \* probe of this connect_atlas succeeded, "complete" once its
                       \* sync_offline_data has returned without raising, else "none"
    pending,           \* history: timestamps with synced_to_atlas != True at that probe
    hardware,          \* GPIO_AVAILABLE and not SIMULATION_MODE
    fogger_active,     \* gpio_control.fogger_active
    fan_speed,         \* gpio_control.fan_speed
    heater_active,     \* gpio_control.heater_active
    lights_active,     \* gpio_control.lights_active
    timers,            \* threading.Timer objects started by control_fogger, not yet fired
    stale_timers,      \* history: how many of them were started before the last
                       \* control_fogger(False) that did not raise
    current_hour,      \* datetime.now().hour at the last auto_control_environment
    commands           \* history: the commands the last auto_control_environment issued

vars == <<localUp, atlasUp, sensor_range, local_readings, atlas_readings,
          simulation_data, local_mongo_db, atlas_mongo_db, using_atlas, now,
          started, restarts, nSaves, sensor_data, acqpc, result, ret,
          status_update, monpc, unsynced_data, sync_i, before, local_available,
          atlas_save, remarked, replicaFault, catch_up, pending, hardware,
          fogger_active, fan_speed, heater_active, lights_active, timers,
          stale_timers, current_hour, commands>>

envVars == <<localUp, atlasUp, sensor_range>>
storeVars == <<local_readings, atlas_readings, simulation_data>>
connVars == <<local_mongo_db, atlas_mongo_db, using_atlas>>
saveVars == <<nSaves, acqpc, result, ret, status_update, before,
              local_available, atlas_save, remarked>>
acqVars == <<saveVars, sensor_data>>
monVars == <<monpc, unsynced_data, sync_i>>
histVars == <<replicaFault, catch_up, pending>>
gpioVars == <<fogger_active, fan_speed, heater_active, lights_active, timers,
              stale_timers>>
ctlVars == <<hardware, gpioVars, current_hour, commands>>
dbVars == <<localUp, atlasUp, storeVars, connVars, now, started, restarts,
            saveVars, monVars, histVars>>

\* ---- helpers ------------------------------------------------------------
Range(s) == {s[i] : i \in DOMAIN s}

Count(s, x) == Cardinality({i \in DOMAIN s : s[i] = x})

\* every order in which a cursor without sort() may return the set S
Perms(S) == {f \in [1..Cardinality(S) -> S] : \A i, j \in DOMAIN f : f[i] = f[j] => i = j}

\* find({'synced_to_atlas': {'$ne': True}}): the matching documents
Unsynced(readings) == {readings[i].server_timestamp : i \in {k \in DOMAIN readings : ~readings[k].synced_to_atlas}}

\* a variant that writes the document back from the dict save_reading holds
\* (replace_one({'_id': id}, data)), in which synced_to_atlas is False
update_one_stale(readings, id) ==
    [i \in DOMAIN readings |->
        IF readings[i].id = id THEN [readings[i] EXCEPT !.synced_to_atlas = FALSE]
                               ELSE readings[i]]

\* update_one({'_id': id}, {'$set': {'synced_to_atlas': True}})
update_one(readings, id) ==
    [i \in DOMAIN readings |->
        IF readings[i].id = id THEN [readings[i] EXCEPT !.synced_to_atlas = TRUE]
                               ELSE readings[i]]

\* a variant that marks one matching document only (update_one with the same filter)
update_many_first(readings) ==
    [i \in DOMAIN readings |->
        IF \A k \in 1..(i - 1) : readings[k].synced_to_atlas
          THEN [readings[i] EXCEPT !.synced_to_atlas = TRUE]
          ELSE readings[i]]

\* update_many({'synced_to_atlas': {'$ne': True}}, {'$set': {'synced_to_atlas': True}})
update_many(readings) ==
    [i \in DOMAIN readings |-> [readings[i] EXCEPT !.synced_to_atlas = TRUE]]

\* ---- initial state: DatabaseService.__init__ before setup_databases() ---
\* GPIOControlService.__init__ (app.py 394-399); no tick has run
GpioInit ==
    /\ fogger_active = FALSE
    /\ fan_speed = 0
    /\ heater_active = FALSE
    /\ lights_active = FALSE
    /\ timers = 0
    /\ stale_timers = 0
    /\ current_hour = 0
    /\ commands = [control_fogger |-> <<>>, control_fan |-> <<>>, control_lights |-> <<>>]

\* DatabaseService.__init__ (app.py 163-170) and SensorService.__init__
DbInit ==
    /\ localUp \in BOOLEAN
    /\ atlasUp \in BOOLEAN
    /\ local_readings = <<>>
    /\ atlas_readings = <<>>
    /\ simulation_data = <<>>
    /\ local_mongo_db = FALSE
    /\ atlas_mongo_db = FALSE
    /\ using_atlas = FALSE
    /\ now = 1
    /\ started = FALSE
    /\ restarts = 0
    /\ nSaves = 0
    /\ sensor_data = DefaultReading
    /\ acqpc = "idle"
    /\ result = None
    /\ ret = None
    /\ status_update = {}
    /\ monpc = "setup"
    /\ unsynced_data = <<>>
    /\ sync_i = 0
    /\ before = 0
    /\ local_available = FALSE
    /\ atlas_save = "none"
    /\ remarked = FALSE
    /\ replicaFault = FALSE
    /\ catch_up = "none"
    /\ pending = {}

\* the program on a machine without GPIO, the sensors delivering one reading
Init ==
    /\ DbInit
    /\ GpioInit
    /\ hardware = FALSE
    /\ sensor_range = "constant"

\* the controller alone, on either kind of machine, the stores answering
ControlInit ==
    /\ DbInit
    /\ localUp
    /\ atlasUp
    /\ GpioInit
    /\ hardware \in BOOLEAN
    /\ sensor_range = "thresholds"

\* the same, the sensors delivering different readings
StoreInit ==
    /\ DbInit
    /\ GpioInit
    /\ hardware = FALSE
    /\ sensor_range = "varying"

\* the sensor service alone, on a Raspberry Pi (SIMULATION_MODE false)
SensorInit ==
    /\ DbInit
    /\ localUp
    /\ atlasUp
    /\ GpioInit
    /\ hardware = TRUE
    /\ sensor_range = "varying"

\* the program on a Raspberry Pi, the local store answering, Atlas not
HardwareInit ==
    /\ DbInit
    /\ localUp
    /\ ~atlasUp
    /\ GpioInit
    /\ hardware = TRUE
    /\ sensor_range = "constant"

\* database_service.py: DatabaseService.__init__ has run (13-22): local_db is
\* set if the local server answered, atlas_db and using_atlas if Atlas did;
\* no call of save_reading yet
StandaloneInit ==
    /\ localUp \in BOOLEAN
    /\ atlasUp \in BOOLEAN
    /\ local_mongo_db \in BOOLEAN
    /\ using_atlas \in BOOLEAN
    /\ atlas_mongo_db = using_atlas
    /\ local_readings = <<>>
    /\ atlas_readings = <<>>
    /\ simulation_data = <<>>
    /\ now = 1
    /\ started = TRUE
    /\ restarts = 0
    /\ nSaves = 0
    /\ sensor_data = DefaultReading
    /\ acqpc = "idle"
    /\ result = None
    /\ ret = "none"
    /\ status_update = {}
    /\ monpc = "wait"
    /\ unsynced_data = <<>>
    /\ sync_i = 0
    /\ before = 0
    /\ local_available = FALSE
    /\ atlas_save = "none"
    /\ remarked = FALSE
    /\ replicaFault = FALSE
    /\ catch_up = "none"
    /\ pending = {}
    /\ GpioInit
    /\ hardware = FALSE
    /\ sensor_range = "varying"

\* ---- environment --------------------------------------------------------
\* the local mongod stops or starts answering
EnvLocal ==
    /\ localUp' = ~localUp
    /\ UNCHANGED <<atlasUp, sensor_range, ctlVars, storeVars, connVars, now, started, restarts,
                   acqVars, monVars, histVars>>

\* MongoDB Atlas (or the network path to it) goes away or comes back
EnvAtlas ==
    /\ atlasUp' = ~atlasUp
    /\ UNCHANGED <<localUp, sensor_range, ctlVars, storeVars, connVars, now, started, restarts,
                   acqVars, monVars, histVars>>

\* ---- DatabaseService: construction and connect_atlas --------------------
\* a variant that clears the flags at startup, to replicate everything again
SetupLocal_resync ==
    /\ monpc = "setup"
    /\ local_mongo_db' = localUp
    /\ local_readings' =
          IF localUp
            THEN [i \in DOMAIN local_readings |->
                    [local_readings[i] EXCEPT !.synced_to_atlas = FALSE]]
            ELSE local_readings
    /\ simulation_data' = <<>>
    /\ monpc' = "connect"
    /\ UNCHANGED <<envVars, ctlVars, atlas_readings, atlas_mongo_db, using_atlas,
                   now, started, restarts, acqVars, unsynced_data, sync_i,
                   histVars>>

\* setup_local_mongodb (app.py 180-202)
SetupLocal ==
    /\ monpc = "setup"
    /\ local_mongo_db' = localUp
    /\ simulation_data' = <<>>
    /\ monpc' = "connect"
    /\ UNCHANGED <<envVars, ctlVars, local_readings, atlas_readings, atlas_mongo_db,
                   using_atlas, now, started, restarts, acqVars, unsynced_data,
                   sync_i, histVars>>

\* connect_atlas returns (True or False): __init__ ends and main() starts the
\* threads, or the health monitor goes to sleep
\* (`completed`: sync_offline_data ran to its end without an exception)
ConnectReturn(completed) ==
    /\ monpc' = "wait"
    /\ started' = TRUE
    /\ unsynced_data' = <<>>
    /\ sync_i' = 0
    /\ catch_up' = IF completed /\ catch_up = "quiet" THEN "complete" ELSE "none"
    /\ pending' = IF completed /\ catch_up = "quiet" THEN pending ELSE {}

\* connect_atlas up to the probe (app.py 206-213), and its except (219-225)
ConnectProbe ==
    /\ monpc = "connect"
    /\ IF atlasUp
         THEN /\ atlas_mongo_db' = TRUE
              /\ using_atlas' = TRUE
              /\ monpc' = "sync"
              /\ replicaFault' = FALSE
              /\ catch_up' = IF acqpc \in {"idle", "backoff", "control", "save", "publish"} THEN "quiet" ELSE "none"
              /\ pending' = IF acqpc \in {"idle", "backoff", "control", "save", "publish"} THEN Unsynced(local_readings) ELSE {}
              /\ UNCHANGED <<started, unsynced_data, sync_i>>
         ELSE /\ atlas_mongo_db' = FALSE
              /\ using_atlas' = FALSE
              /\ ConnectReturn(FALSE)
              /\ UNCHANGED replicaFault
    /\ UNCHANGED <<envVars, ctlVars, storeVars, local_mongo_db, now, restarts, acqVars>>

\* sync_offline_data: the guard and the find (app.py 229-238)
SyncFind ==
    /\ monpc = "sync"
    /\ IF ~atlas_mongo_db \/ ~local_mongo_db
         THEN ConnectReturn(FALSE)
         ELSE IF ~localUp
         THEN ConnectReturn(FALSE)                  \* find raises: except at 258
         ELSE \E docs \in Perms(Unsynced(local_readings)) :
                IF docs = <<>>
                  THEN ConnectReturn(TRUE)
                  ELSE /\ unsynced_data' = docs
                       /\ sync_i' = 0
                       /\ monpc' = "sync_insert"
                       /\ UNCHANGED <<started, catch_up, pending>>
    /\ UNCHANGED <<envVars, ctlVars, storeVars, connVars, now, restarts, acqVars,
                   replicaFault>>

\* a variant of the insert loop that, when an insert raises, marks the
\* documents it has inserted so far
SyncInsert_marks ==
    /\ monpc = "sync_insert"
    /\ IF atlasUp
         THEN /\ atlas_readings' = Append(atlas_readings, unsynced_data[sync_i + 1])
              /\ sync_i' = sync_i + 1
              /\ monpc' = IF sync_i + 1 = Len(unsynced_data) THEN "sync_mark" ELSE "sync_insert"
              /\ UNCHANGED <<started, catch_up, unsynced_data, pending, local_readings>>
         ELSE /\ ConnectReturn(FALSE)
              /\ local_readings' =
                    [i \in DOMAIN local_readings |->
                        IF \E k \in 1..sync_i :
                              unsynced_data[k] = local_readings[i].server_timestamp
                          THEN [local_readings[i] EXCEPT !.synced_to_atlas = TRUE]
                          ELSE local_readings[i]]
              /\ UNCHANGED atlas_readings
    /\ UNCHANGED <<envVars, ctlVars, simulation_data, connVars, now,
                   restarts, acqVars, replicaFault>>

\* sync_offline_data: one iteration of the insert loop (app.py 242-248)
SyncInsert ==
    /\ monpc = "sync_insert"
    /\ IF atlasUp
         THEN /\ atlas_readings' = Append(atlas_readings, unsynced_data[sync_i + 1])
              /\ sync_i' = sync_i + 1
              /\ monpc' = IF sync_i + 1 = Len(unsynced_data) THEN "sync_mark" ELSE "sync_insert"
              /\ UNCHANGED <<started, catch_up, unsynced_data, pending>>
         ELSE /\ ConnectReturn(FALSE)               \* insert_one raises: except at 258
              /\ UNCHANGED atlas_readings
    /\ UNCHANGED <<envVars, ctlVars, local_readings, simulation_data, connVars, now,
                   restarts, acqVars, replicaFault>>

\* sync_offline_data: update_many (app.py 250-254)
SyncMark ==
    /\ monpc = "sync_mark"
    /\ local_readings' = IF localUp THEN update_many(local_readings)
                                    ELSE local_readings   \* raises: except at 258
    /\ ConnectReturn(localUp)
    /\ UNCHANGED <<envVars, ctlVars, atlas_readings, simulation_data, connVars, now,
                   restarts, acqVars, replicaFault>>

\* a variant that probes in every iteration, connected or not
MonitorCheck_always ==
    /\ monpc = "wait"
    /\ monpc' = "connect"
    /\ UNCHANGED <<envVars, ctlVars, storeVars, connVars, now, started, restarts,
                   acqVars, unsynced_data, sync_i, histVars>>

\* database_health_monitor: an iteration that finds using_atlas false
\* (app.py 1032-1033); an iteration that finds it true changes nothing
MonitorCheck ==
    /\ monpc = "wait"
    /\ ~using_atlas
    /\ monpc' = "connect"
    /\ UNCHANGED <<envVars, ctlVars, storeVars, connVars, now, started, restarts,
                   acqVars, unsynced_data, sync_i, histVars>>

\* ---- sensor_monitor and DatabaseService.save_reading --------------------
\* get_database_status (app.py 371-385): the fields sensor_monitor publishes
get_database_status ==
    [atlas_connected |-> using_atlas, offline_mode |-> ~using_atlas]

\* a variant in which the failure of the forward reaches the outer except
\* (app.py 307-309) and save_reading returns None
AtlasSaveFailed_outer ==
    /\ ret' = None
    /\ acqpc' = "publish"
    /\ UNCHANGED using_atlas

\* a variant without the inner except nor the outer one: the failure of the
\* forward leaves save_reading and reaches the except branch of the loop
AtlasSaveFailed_raises ==
    /\ acqpc' = "backoff"
    /\ UNCHANGED <<ret, using_atlas>>

\* the inner except of save_reading (app.py 292-293): the failure is printed
\* and save_reading goes on to return the local id
AtlasSaveFailed ==
    /\ ret' = result
    /\ acqpc' = "publish"
    /\ UNCHANGED using_atlas

\* a variant of the loop that calls save_reading before auto_control_environment
\* has run
ReadSensors_then_save ==
    /\ started
    /\ acqpc \in {"idle", "backoff"}
    /\ nSaves < MaxSaves
    /\ sensor_data' \in sensor_values(sensor_range)
    /\ acqpc' = "save"
    /\ UNCHANGED <<envVars, ctlVars, storeVars, connVars, now, started, restarts,
                   nSaves, result, ret, status_update, before,
                   local_available, atlas_save, remarked, monVars, histVars>>

\* sensor_monitor: a new cycle begins, after the sleep of the last one or
\* after the sleep of the except branch; get_sensor_data() (app.py 954-956)
ReadSensors ==
    /\ started
    /\ acqpc \in {"idle", "backoff"}
    /\ nSaves < MaxSaves
    /\ sensor_data' \in sensor_values(sensor_range)
    /\ acqpc' = "control"
    /\ UNCHANGED <<envVars, ctlVars, storeVars, connVars, now, started, restarts,
                   nSaves, result, ret, status_update, before,
                   local_available, atlas_save, remarked, monVars, histVars>>

\* save_reading up to the local insert (app.py 262-273), and the fallback
\* branch (296-309)
SaveLocal ==
    /\ acqpc = "save"
    /\ nSaves' = nSaves + 1
    /\ now' = now + 1
    /\ remarked' = FALSE
    /\ status_update' = {}
    /\ before' = Len(local_readings)
    /\ atlas_save' = "none"
    /\ catch_up' = "none"
    /\ pending' = {}
    /\ IF local_mongo_db
         THEN IF localUp
           THEN /\ local_readings' = Append(local_readings,
                       [id |-> Len(local_readings) + 1, server_timestamp |-> now,
                        value |-> sensor_data, synced_to_atlas |-> FALSE])
                /\ result' = Len(local_readings) + 1
                /\ ret' = None
                /\ acqpc' = "check_atlas"
                /\ local_available' = TRUE
                /\ UNCHANGED simulation_data
           ELSE /\ result' = None                   \* insert_one raises: except at 307
                /\ ret' = None
                /\ acqpc' = "publish"
                /\ local_available' = FALSE
                /\ UNCHANGED <<local_readings, simulation_data>>
         ELSE /\ simulation_data' = Append(simulation_data,
                       [id |-> Len(simulation_data) + 1, str_id |-> FALSE,
                        server_timestamp |-> now, isoformat |-> FALSE,
                        value |-> sensor_data])
              /\ result' = None
              /\ ret' = Len(simulation_data) + 1
              /\ acqpc' = "publish"
              /\ local_available' = FALSE
              /\ UNCHANGED local_readings
    /\ UNCHANGED <<envVars, ctlVars, atlas_readings, connVars, started, restarts,
                   sensor_data, monVars, replicaFault>>

\* a variant that forwards whenever MONGO_URI is configured
ShouldForward_always == TRUE

\* the condition of the forward, `self.using_atlas and self.atlas_mongo_db`
\* (app.py 276)
ShouldForward == using_atlas /\ atlas_mongo_db

\* save_reading: `if self.using_atlas and self.atlas_mongo_db` (app.py 276)
SaveCheckAtlas ==
    /\ acqpc = "check_atlas"
    /\ IF ShouldForward
         THEN /\ acqpc' = "atlas_insert"
              /\ UNCHANGED ret
         ELSE /\ acqpc' = "publish"
              /\ ret' = result
    /\ catch_up' = "none"
    /\ pending' = {}
    /\ UNCHANGED <<envVars, ctlVars, storeVars, connVars, now, started, restarts,
                   nSaves, sensor_data, result, status_update, before,
                   local_available, atlas_save, remarked, monVars, replicaFault>>

\* save_reading: the forward to Atlas (app.py 277-283, 292-293)
SaveAtlasInsert ==
    /\ acqpc = "atlas_insert"
    /\ IF atlasUp
         THEN /\ atlas_readings' = Append(atlas_readings, local_readings[result].server_timestamp)
              /\ atlas_save' = "ok"
              /\ acqpc' = "mark_synced"
              /\ UNCHANGED <<ret, using_atlas, replicaFault>>
         ELSE /\ atlas_save' = "failed"
              /\ replicaFault' = TRUE
              /\ AtlasSaveFailed
              /\ UNCHANGED atlas_readings
    /\ catch_up' = "none"
    /\ pending' = {}
    /\ UNCHANGED <<envVars, ctlVars, local_readings, simulation_data,
                   local_mongo_db, atlas_mongo_db, now, started, restarts, nSaves,
                   sensor_data, result, status_update, before, local_available,
                   remarked, monVars>>

\* save_reading: update_one and the return (app.py 286-295)
SaveMarkSynced ==
    /\ acqpc = "mark_synced"
    /\ local_readings' = IF localUp THEN update_one(local_readings, result)
                                    ELSE local_readings   \* raises: except at 292
    /\ remarked' = (localUp /\ local_readings[result].synced_to_atlas)
    /\ ret' = result
    /\ acqpc' = "publish"
    /\ catch_up' = "none"
    /\ pending' = {}
    /\ UNCHANGED <<envVars, ctlVars, atlas_readings, simulation_data, connVars, now,
                   started, restarts, nSaves, sensor_data, result, status_update,
                   before, local_available, atlas_save, monVars, replicaFault>>

\* a variant of the loop without its except branch: the exception of an emit
\* ends the thread
Emit_fatal(raises) ==
    IF raises
      THEN acqpc' = "ended" /\ UNCHANGED status_update
      ELSE status_update' = {get_database_status} /\ acqpc' = "idle"

\* the two socketio.emit of a cycle and what follows (app.py 966-989); when
\* one raises, status_update is not sent and the except branch sleeps
Emit(raises) ==
    IF raises
      THEN acqpc' = "backoff" /\ UNCHANGED status_update
      ELSE status_update' = {get_database_status} /\ acqpc' = "idle"

\* sensor_monitor: the sensor_update and status_update events and the sleep
\* (app.py 966-985), or the except branch (987-989)
Publish ==
    /\ acqpc = "publish"
    /\ \E raises \in BOOLEAN : Emit(raises)
    /\ UNCHANGED <<envVars, ctlVars, storeVars, connVars, now, started, restarts,
                   nSaves, sensor_data, result, ret, before, local_available,
                   atlas_save, remarked, monVars, histVars>>

\* ---- DatabaseService: the read operations ---------------------------------
Limits == {1, 2}     \* the limit arguments of get_latest_readings
Hours == {1, 2}      \* the hours arguments of get_historical_data, in ticks of `now`
HistoryLimit == 500  \* get_historical_data: the default of its limit parameter

Min(a, b) == IF a < b THEN a ELSE b

\* the body of the result loops (app.py 320-323, 329-332, 358-361):
\* doc['_id'] = str(doc['_id']) and server_timestamp.isoformat(); a document
\* read from MongoDB is a new dict and gets the two marks here
serialize(doc) ==
    [id |-> doc.id, str_id |-> TRUE, server_timestamp |-> doc.server_timestamp,
     isoformat |-> TRUE, value |-> doc.value]

\* sort('server_timestamp', -1) and sorted(..., reverse=True): the positions
\* of `docs` by descending server_timestamp
sort_descending(docs) ==
    CHOOSE p \in Perms(DOMAIN docs) :
        \A i, j \in DOMAIN p :
            i < j => docs[p[i]].server_timestamp >= docs[p[j]].server_timestamp

\* sorted() compares a datetime with a str and raises TypeError
\* (app.py 328, caught at 341)
sorted_raises(docs) == \E i, j \in DOMAIN docs : docs[i].isoformat # docs[j].isoformat

\* the positions of simulation_data that sorted(...)[:limit] selects
latest_positions(limit) ==
    LET p == sort_descending(simulation_data)
    IN  {p[i] : i \in 1..Min(limit, Len(simulation_data))}

\* get_latest_readings(limit): the list it returns (app.py 311-343)
get_latest_readings(limit) ==
    IF local_mongo_db
      THEN IF localUp
        THEN LET p == sort_descending(local_readings)
             IN  [i \in 1..Min(limit, Len(local_readings)) |-> serialize(local_readings[p[i]])]
        ELSE <<>>                                   \* find raises: except at 341
      ELSE IF sorted_raises(simulation_data)
        THEN <<>>                                   \* except at 341
        ELSE LET p == sort_descending(simulation_data)
             IN  [i \in 1..Min(limit, Len(simulation_data)) |-> serialize(simulation_data[p[i]])]

\* a request to /api/latest or any other caller of get_latest_readings: in
\* the in-memory mode the loop at 329-332 writes into the stored dicts
GetLatest(limit) ==
    /\ started
    /\ simulation_data' =
          IF ~local_mongo_db /\ ~sorted_raises(simulation_data)
            THEN [i \in DOMAIN simulation_data |->
                    IF i \in latest_positions(limit)
                      THEN serialize(simulation_data[i])
                      ELSE simulation_data[i]]
            ELSE simulation_data
    /\ UNCHANGED <<envVars, ctlVars, local_readings, atlas_readings, connVars, now,
                   started, restarts, acqVars, monVars, histVars>>

\* the documents get_historical_data finds: server_timestamp >= utcnow() - hours
in_range(hours) ==
    SelectSeq(local_readings, LAMBDA doc : doc.server_timestamp >= now - hours)

\* get_historical_data(hours, limit): the list it returns (app.py 345-369)
get_historical_data(hours, limit) ==
    IF local_mongo_db
      THEN IF localUp
        THEN LET docs == in_range(hours)
                 p == sort_descending(docs)
             IN  [i \in 1..Min(limit, Len(docs)) |-> serialize(docs[p[i]])]
        ELSE <<>>                                   \* find raises: except at 367
      ELSE <<>>

\* a request to /api/history: get_historical_data writes nothing
GetHistorical(hours) ==
    /\ started
    /\ UNCHANGED vars

\* ---- the process is killed and started again ----------------------------
\* the two stores keep their documents; the object state is that of a new
\* DatabaseService, SensorService and GPIOControlService (app.py 163-170,
\* 388-390), and the timers of the old process are gone
Restart ==
    /\ restarts < MaxRestarts
    /\ restarts' = restarts + 1
    /\ simulation_data' = <<>>
    /\ local_mongo_db' = FALSE
    /\ atlas_mongo_db' = FALSE
    /\ using_atlas' = FALSE
    /\ started' = FALSE
    /\ acqpc' = "idle"
    /\ result' = None
    /\ ret' = None
    /\ status_update' = {}
    /\ monpc' = "setup"
    /\ unsynced_data' = <<>>
    /\ sync_i' = 0
    /\ before' = 0
    /\ local_available' = FALSE
    /\ atlas_save' = "none"
    /\ remarked' = FALSE
    /\ sensor_data' = DefaultReading
    /\ replicaFault' = FALSE
    /\ catch_up' = "none"
    /\ pending' = {}
    /\ fogger_active' = FALSE
    /\ fan_speed' = 0
    /\ heater_active' = FALSE
    /\ lights_active' = FALSE
    /\ timers' = 0
    /\ stale_timers' = 0
    /\ current_hour' = 0
    /\ commands' = [control_fogger |-> <<>>, control_fan |-> <<>>, control_lights |-> <<>>]
    /\ UNCHANGED <<envVars, hardware, local_readings, atlas_readings, now, nSaves>>

\* ---- GPIOControlService and auto_control_environment --------------------
\* the state of gpio_control, as a value
gpio ==
    [fogger_active |-> fogger_active, fan_speed |-> fan_speed,
     heater_active |-> heater_active, lights_active |-> lights_active,
     timers |-> timers, stale_timers |-> stale_timers]

\* the device calls that raise in one handler: none without GPIO hardware
Faults ==
    IF hardware
      THEN [fogger : BOOLEAN, fan : BOOLEAN, lights : BOOLEAN]
      ELSE {[fogger |-> FALSE, fan |-> FALSE, lights |-> FALSE]}

\* whether the device call of one control_* call raises
DeviceFaults == IF hardware THEN BOOLEAN ELSE {FALSE}

\* a variant whose deactivation switches the device and keeps the flag
control_fogger_sticky(g, activate, duration, fault) ==
    IF activate /\ ~(hardware /\ fault)
      THEN [g EXCEPT !.fogger_active = TRUE,
                     !.timers = IF hardware /\ duration # None THEN @ + 1 ELSE @]
      ELSE g

\* control_fogger(activate, duration) (app.py 451-472); `fault`: the device
\* call raises and the except at 471 prints
control_fogger(g, activate, duration, fault) ==
    IF ~hardware
      THEN [g EXCEPT !.fogger_active = activate]
      ELSE IF fault
        THEN g
        ELSE [g EXCEPT !.fogger_active = activate,
                       !.timers = IF activate /\ duration # None THEN @ + 1 ELSE @,
                       !.stale_timers = IF activate THEN @ ELSE g.timers]

\* a variant of control_fan that records the speed before it drives the device
control_fan_early(g, speed_percent, fault) ==
    [g EXCEPT !.fan_speed = speed_percent]

\* control_fan(speed_percent) (app.py 474-490)
control_fan(g, speed_percent, fault) ==
    IF hardware /\ fault THEN g ELSE [g EXCEPT !.fan_speed = speed_percent]

\* a variant of control_lights that drives the heater flag as well
control_lights_heater(g, activate, fault) ==
    IF hardware /\ fault THEN g
    ELSE [g EXCEPT !.lights_active = activate, !.heater_active = activate]

\* control_lights(activate) (app.py 492-507)
control_lights(g, activate, fault) ==
    IF hardware /\ fault THEN g ELSE [g EXCEPT !.lights_active = activate]

\* a variant of the fogger rule that does not look at the fogger state
should_fog_again(g, r) ==
    r.humidity < humidity_min - 5 /\ r.water_level > 20

\* a variant of the fogger rule that does not look at the water level
should_fog_dry(g, r) ==
    r.humidity < humidity_min - 5 /\ ~g.fogger_active

\* a variant of the fogger rule that activates from the level of the veto on
should_fog_low(g, r) ==
    r.humidity < humidity_min - 5 /\ ~g.fogger_active /\ r.water_level >= 15

\* the condition of the fogger rule (app.py 1007)
should_fog(g, r) ==
    r.humidity < humidity_min - 5 /\ ~g.fogger_active /\ r.water_level > 20

\* a variant of the fan-off rule that switches the fan off as soon as the
\* humidity is back under humidity_max + 5
should_fan_off_band(g, r) ==
    r.humidity <= humidity_max + 5 /\ g.fan_speed > 0

\* the condition of the fan-on rule (app.py 1011)
should_fan_on(g, r) ==
    r.humidity > humidity_max + 5 /\ g.fan_speed < 50

\* the condition of the fan-off rule (app.py 1013), tried when the fan-on
\* rule did not apply
should_fan_off(g, r) ==
    r.humidity <= humidity_max /\ g.fan_speed > 0

\* a variant of the light schedule that includes off_hour
should_lights_be_on_closed(hour) ==
    on_hour <= hour /\ hour <= off_hour

\* should_lights_be_on (app.py 1019)
should_lights_be_on(hour) ==
    on_hour <= hour /\ hour < off_hour

\* auto_control_environment(sensor_data) at hour `hour` (app.py 991-1025):
\* the state of gpio_control it leaves and the calls it makes
auto_control_environment(g, r, hour, fault) ==
    LET veto == r.water_level < 15 /\ g.fogger_active
        g1 == IF veto THEN control_fogger(g, FALSE, None, fault.fogger) ELSE g
        fog == should_fog(g1, r)
        g2 == IF fog THEN control_fogger(g1, TRUE, fogger_duration, fault.fogger) ELSE g1
        fan_on == should_fan_on(g2, r)
        fan_off == ~fan_on /\ should_fan_off(g2, r)
        g3 == IF fan_on THEN control_fan(g2, 50, fault.fan)
              ELSE IF fan_off THEN control_fan(g2, 0, fault.fan)
              ELSE g2
        lights_on == should_lights_be_on(hour)
        lights == lights_on # g3.lights_active
        g4 == IF lights THEN control_lights(g3, lights_on, fault.lights) ELSE g3
    IN  [gpio |-> g4,
         commands |->
            [control_fogger |->
                (IF veto THEN << <<FALSE, None>> >> ELSE <<>>)
                    \o (IF fog THEN << <<TRUE, fogger_duration>> >> ELSE <<>>),
             control_fan |->
                IF fan_on THEN <<50>> ELSE IF fan_off THEN <<0>> ELSE <<>>,
             control_lights |->
                IF lights THEN <<lights_on>> ELSE <<>>]]

\* gpio_control becomes g; a timer is started only below the bound
SetGpio(g) ==
    /\ g.timers <= MaxTimers
    /\ fogger_active' = g.fogger_active
    /\ fan_speed' = g.fan_speed
    /\ heater_active' = g.heater_active
    /\ lights_active' = g.lights_active
    /\ timers' = g.timers
    /\ stale_timers' = g.stale_timers

\* one tick: get_sensor_data returns r and auto_control_environment runs at
\* hour `hour`; `fault` names the device calls that raise, among those made
Tick(r, hour, fault) ==
    \E out \in {auto_control_environment(gpio, r, hour, fault)} :
        /\ fault.fogger => out.commands.control_fogger # <<>>
        /\ fault.fan => out.commands.control_fan # <<>>
        /\ fault.lights => out.commands.control_lights # <<>>
        /\ sensor_data' = r
        /\ current_hour' = hour
        /\ SetGpio(out.gpio)
        /\ commands' = out.commands
        /\ UNCHANGED <<dbVars, sensor_range, hardware>>

\* sensor_monitor: get_sensor_data and auto_control_environment (app.py 956-959)
AutoControl ==
    \E r \in sensor_values(sensor_range), hour \in HourValues, fault \in Faults :
        Tick(r, hour, fault)

\* sensor_monitor: auto_control_environment(sensor_data) at hour `hour`
\* (app.py 958-959); `fault` names the device calls that raise, among those made
ControlTick(hour, fault) ==
    /\ acqpc = "control"
    /\ \E out \in {auto_control_environment(gpio, sensor_data, hour, fault)} :
          /\ fault.fogger => out.commands.control_fogger # <<>>
          /\ fault.fan => out.commands.control_fan # <<>>
          /\ fault.lights => out.commands.control_lights # <<>>
          /\ current_hour' = hour
          /\ SetGpio(out.gpio)
          /\ commands' = out.commands
    /\ acqpc' = "save"
    /\ UNCHANGED <<envVars, hardware, storeVars, connVars, now, started, restarts,
                   sensor_data, nSaves, result, ret, status_update, before,
                   local_available, atlas_save, remarked, monVars, histVars>>

\* sensor_monitor: auto_control_environment(sensor_data) (app.py 958-959)
Control ==
    \E hour \in HourValues, fault \in Faults : ControlTick(hour, fault)

\* POST /api/control/fogger (app.py 885-898)
ManualFogger ==
    \E activate \in BOOLEAN, duration \in Durations, fault \in DeviceFaults :
        /\ SetGpio(control_fogger(gpio, activate,
                                  IF activate THEN duration ELSE None, fault))
        /\ UNCHANGED <<dbVars, sensor_range, sensor_data, hardware, current_hour,
                       commands>>

\* POST /api/control/fan (app.py 900-912)
ManualFan ==
    \E speed \in FanSpeeds, fault \in DeviceFaults :
        /\ SetGpio(control_fan(gpio, speed, fault))
        /\ UNCHANGED <<dbVars, sensor_range, sensor_data, hardware, current_hour,
                       commands>>

\* POST /api/control/lights (app.py 914-926)
ManualLights ==
    \E activate \in BOOLEAN, fault \in DeviceFaults :
        /\ SetGpio(control_lights(gpio, activate, fault))
        /\ UNCHANGED <<dbVars, sensor_range, sensor_data, hardware, current_hour,
                       commands>>

\* one pending timer fires, `stale` telling which kind: control_fogger(False)
TimerFire(stale, fault) ==
    /\ IF stale THEN stale_timers > 0 ELSE timers > stale_timers
    /\ SetGpio(control_fogger([gpio EXCEPT !.timers = @ - 1,
                                           !.stale_timers = IF stale THEN @ - 1 ELSE @],
                              FALSE, None, fault))
    /\ UNCHANGED <<dbVars, sensor_range, sensor_data, hardware, current_hour,
                   commands>>

\* a threading.Timer started by control_fogger fires: control_fogger(False)
\* (app.py 465)
TimerFires ==
    \E stale \in BOOLEAN, fault \in DeviceFaults : TimerFire(stale, fault)

\* ---- specifications -----------------------------------------------------
\* ---- SensorService: read_sensors on the hardware ---------------------------
\* self.current_data: assigned in __init__ (app.py 523-531) and nowhere else
current_data == DefaultReading

\* what the three sensors deliver when their read succeeds: the SCD40
\* (temperature, humidity, CO2), the BH1750 (lux), the ultrasonic distance in cm
RawReadings ==
    [temperature : {20, 24}, humidity : {80, 90}, co2 : {800, 900},
     light_lux : {300, 600}, distance : {10, 20, 33}]

\* the reads that fail on one call: the sensor is missing, not ready, returns
\* None or raises
SensorFaults == [scd40 : BOOLEAN, bh1750 : BOOLEAN, ultrasonic : BOOLEAN]

Max(a, b) == IF a > b THEN a ELSE b

\* calculate_water_level_percentage(distance_cm) (app.py 617-638), with
\* sensor_height_cm 35, max_depth_cm 30, min_depth_cm 5 (config.py 126-128)
calculate_water_level_percentage(distance_cm) ==
    LET water_depth == Max(0, Min(30, 35 - distance_cm))
    IN  IF water_depth <= 5 THEN 0
        ELSE ((water_depth - 5) * 100) \div (30 - 5)

\* read_sensors() below the simulation branch (app.py 642, 679-742): a copy
\* of current_data in which the fields of the reads that succeeded are
\* replaced; the calibration offsets are all 0 (config.py 117-123)
read_sensors(raw, failed) ==
    LET data == current_data
        d1 == IF failed.scd40 THEN data
              ELSE [data EXCEPT !.temperature = raw.temperature,
                                !.humidity = raw.humidity,
                                !.co2 = raw.co2]
        d2 == IF failed.bh1750 THEN d1
              ELSE [d1 EXCEPT !.light_intensity = raw.light_lux]
        d3 == IF failed.ultrasonic THEN d2
              ELSE [d2 EXCEPT !.water_level =
                                 calculate_water_level_percentage(raw.distance)]
    IN  d3

\* one call of get_sensor_data on the hardware (app.py 744-746)
ReadHardware(raw, failed) ==
    /\ hardware
    /\ sensor_data' = read_sensors(raw, failed)
    /\ UNCHANGED <<envVars, ctlVars, storeVars, connVars, now, started, restarts,
                   saveVars, monVars, histVars>>

GetSensorData ==
    \E raw \in RawReadings, failed \in SensorFaults : ReadHardware(raw, failed)

\* ---- database_service.py: the standalone DatabaseService ------------------
\* a variant of the return value that counts the Atlas insert as a save
save_return_either(saved_to_atlas, saved_locally) ==
    IF saved_to_atlas \/ saved_locally THEN "True" ELSE "False"

\* the return value of save_reading (database_service.py 117-127): True at
\* the end of the local insert, False everywhere else
save_return(saved_to_atlas, saved_locally) ==
    IF saved_locally THEN "True" ELSE "False"

\* save_reading(data) of database_service.py (95-131): the Atlas insert if
\* using_atlas, whose failure clears using_atlas, then the local insert
StandaloneSave(data) ==
    /\ nSaves < MaxSaves
    /\ LET forward == using_atlas /\ atlas_mongo_db
           saved_to_atlas == forward /\ atlasUp
           saved_locally == local_mongo_db /\ localUp
       IN  /\ atlas_readings' = IF saved_to_atlas THEN Append(atlas_readings, now)
                                                  ELSE atlas_readings
           /\ using_atlas' = IF forward /\ ~atlasUp THEN FALSE ELSE using_atlas
           /\ local_readings' =
                 IF saved_locally
                   THEN Append(local_readings,
                               [server_timestamp |-> now, value |-> data])
                   ELSE local_readings
           /\ ret' = save_return(saved_to_atlas, saved_locally)
    /\ sensor_data' = data
    /\ nSaves' = nSaves + 1
    /\ now' = now + 1
    /\ UNCHANGED <<envVars, ctlVars, simulation_data, local_mongo_db,
                   atlas_mongo_db, started, restarts, acqpc, result,
                   status_update, before, local_available, atlas_save, remarked,
                   monVars, histVars>>

StandaloneSaveReading ==
    \E data \in sensor_values(sensor_range) : StandaloneSave(data)

Acquisition == ReadSensors \/ Control \/ SaveLocal \/ SaveCheckAtlas \/ SaveAtlasInsert \/ SaveMarkSynced \/ Publish

Monitor == SetupLocal \/ ConnectProbe \/ SyncFind \/ SyncInsert \/ SyncMark \/ MonitorCheck

Next ==
    \/ EnvLocal
    \/ EnvAtlas
    \/ SetupLocal
    \/ ConnectProbe
    \/ SyncFind
    \/ SyncInsert
    \/ SyncMark
    \/ MonitorCheck
    \/ ReadSensors
    \/ Control
    \/ SaveLocal
    \/ SaveCheckAtlas
    \/ SaveAtlasInsert
    \/ SaveMarkSynced
    \/ Publish
    \/ \E limit \in Limits : GetLatest(limit)
    \/ \E hours \in Hours : GetHistorical(hours)
    \/ Restart

Spec == Init /\ [][Next]_vars

\* the controller: the ticks of sensor_monitor, the control API and the timers
ControlNext ==
    \/ AutoControl
    \/ ManualFogger
    \/ ManualFan
    \/ ManualLights
    \/ TimerFires

ControlSpec == ControlInit /\ [][ControlNext]_vars

\* the sensor service: calls of get_sensor_data, one after the other
SensorNext == GetSensorData

SensorSpec == SensorInit /\ [][SensorNext]_vars

\* the acquisition thread on the hardware, with the health monitor, the fan
\* route and the fogger timers
HardwareNext ==
    \/ SetupLocal
    \/ ConnectProbe
    \/ MonitorCheck
    \/ ReadSensors
    \/ Control
    \/ SaveLocal
    \/ SaveCheckAtlas
    \/ Publish
    \/ ManualFan
    \/ TimerFires

HardwareSpec == HardwareInit /\ [][HardwareNext]_vars

\* database_service.py: calls of save_reading while the two servers come and go
StandaloneNext ==
    \/ EnvLocal
    \/ EnvAtlas
    \/ StandaloneSaveReading

StandaloneSpec == StandaloneInit /\ [][StandaloneNext]_vars

\* the same program, fed with different readings
StoreSpec == StoreInit /\ [][Next]_vars

\* both threads are scheduled again and again; the environment is not obliged
\* to change
FairSpec == Spec /\ WF_vars(Acquisition) /\ WF_vars(Monitor)

TypeOK ==
    /\ localUp \in BOOLEAN /\ atlasUp \in BOOLEAN
    /\ using_atlas \in BOOLEAN /\ local_mongo_db \in BOOLEAN /\ atlas_mongo_db \in BOOLEAN
    /\ acqpc \in {"idle", "control", "save", "check_atlas", "atlas_insert",
                 "mark_synced", "publish", "backoff"}
    /\ monpc \in {"setup", "connect", "sync", "sync_insert", "sync_mark", "wait"}
    /\ nSaves \in 0..MaxSaves
    /\ restarts \in 0..MaxRestarts

\* ---- properties ---------------------------------------------------------
AllReplicated ==
    \A i \in DOMAIN local_readings :
        /\ local_readings[i].synced_to_atlas
        /\ local_readings[i].server_timestamp \in Range(atlas_readings)

\* C1: when save_reading has returned and its local insert did not raise,
\* whatever using_atlas was and whether or not the forward to Atlas raised,
\* the local store holds exactly one more document than at the call and the
\* value returned is the id of that document, not None.
C1_SaveStoresLocally ==
    (acqpc = "publish" /\ local_available) =>
        /\ ret # None
        /\ ret = result
        /\ Len(local_readings) = before + 1
        /\ local_readings[ret].server_timestamp = now - 1

\* C1 witness: a save_reading whose forward to Atlas raised has returned an id.
C1_Witness ==
    /\ acqpc = "publish"
    /\ local_available
    /\ atlas_save = "failed"
    /\ ret # None

\* C2: if the local store always answers and Atlas is eventually reachable
\* for good, then under fair scheduling of both threads every local document
\* eventually has synced_to_atlas = True and is in Atlas, for good.
C2_ReconnectionLiveness ==
    ([]localUp /\ <>[]atlasUp) => <>[]AllReplicated

\* C2, the end of its counterexample: once connect_atlas has returned with
\* using_atlas true, no step of the running process changes a local document
\* other than the one save_reading is marking, however many more cycles run,
\* so a document left with synced_to_atlas = False stays so.
C2_NoLaterCatchUp ==
    [][(monpc = "wait" /\ using_atlas /\ restarts' = restarts) =>
          \A i \in DOMAIN local_readings :
              (acqpc = "mark_synced" /\ i = result) \/ local_readings'[i] = local_readings[i]]_vars

\* C3: inserting a document whose (device_id, server_timestamp) is already in
\* Atlas leaves Atlas unchanged: no step changes the number of copies of a
\* key that is present.
C3_ReplicaInsertIdempotent ==
    [][\A t \in Range(atlas_readings) :
          Count(atlas_readings', t) = Count(atlas_readings, t)]_vars

\* C4: in every state a local document with synced_to_atlas = True has a
\* document in Atlas.
C4_FlagImpliesReplica ==
    \A i \in DOMAIN local_readings :
        local_readings[i].synced_to_atlas =>
            local_readings[i].server_timestamp \in Range(atlas_readings)

\* C5: within one run of the process, in which only the two threads write to
\* Atlas, no document is inserted into Atlas more than once.
C5_NoDoubleInsert ==
    restarts = 0 =>
        \A i, j \in DOMAIN atlas_readings :
            atlas_readings[i] = atlas_readings[j] => i = j

\* C6: when save_reading returns after its forward to Atlas raised,
\* using_atlas is false and the saved document has synced_to_atlas = False.
C6_FailedForwardDisconnects ==
    (acqpc = "publish" /\ atlas_save = "failed") =>
        /\ ~using_atlas
        /\ ~local_readings[result].synced_to_atlas

\* C7: the status_update of a cycle never reports atlas_connected (nor
\* offline_mode false) when the forward of that cycle raised, or when a
\* forward raised earlier and no probe has succeeded since.
C7_StatusTruthful ==
    \A m \in status_update :
        (m.atlas_connected \/ ~m.offline_mode) =>
            (atlas_save # "failed" /\ ~replicaFault)

\* C8: when connect_atlas has returned after a successful probe, its
\* sync_offline_data ran on the local store without raising and no step of
\* save_reading ran meanwhile, then every document that had synced_to_atlas
\* != True at the probe is in Atlas and no local document is left with
\* synced_to_atlas != True.
C8_CatchUpCompletes ==
    catch_up = "complete" =>
        /\ monpc = "wait"
        /\ using_atlas
        /\ pending \subseteq Range(atlas_readings)
        /\ Unsynced(local_readings) = {}

\* C8 witness: such a catch-up sync has replicated two documents.
C8_Witness ==
    /\ catch_up = "complete"
    /\ Cardinality(pending) = 2

\* C9: the documents a catch-up sync has inserted so far went into Atlas in
\* ascending server_timestamp order.
C9_CatchUpAscending ==
    monpc \in {"sync_insert", "sync_mark"} =>
        \A a, b \in 1..sync_i :
            a < b => unsynced_data[a] < unsynced_data[b]

\* C10: Atlas receives the documents in capture order: when save_reading
\* forwards a document to Atlas, every older local document is in Atlas
\* already.
C10_ReplicaInCaptureOrder ==
    [][(acqpc = "atlas_insert" /\ acqpc' = "mark_synced") =>
          \A i \in DOMAIN local_readings :
              i < result => local_readings[i].server_timestamp \in Range(atlas_readings)]_vars

\* C11: when save_reading has returned and using_atlas is (and so was
\* throughout the call) false, the call attempted no write to Atlas: its
\* document is not in Atlas and is stored locally with synced_to_atlas = False.
C11_DisconnectedSaveIsLocalOnly ==
    (acqpc = "publish" /\ local_available /\ ~using_atlas) =>
        /\ atlas_save = "none"
        /\ local_readings[result].server_timestamp \notin Range(atlas_readings)
        /\ ~local_readings[result].synced_to_atlas

\* C11 witness: such a save_reading has returned while Atlas was reachable.
C11_Witness ==
    /\ acqpc = "publish"
    /\ local_available
    /\ ~using_atlas
    /\ atlasUp
    /\ ~local_readings[result].synced_to_atlas

\* C12: using_atlas goes from false to true only in the probe of
\* connect_atlas, with Atlas answering; no step of save_reading,
\* get_latest_readings or get_historical_data raises it; and the health
\* monitor goes from its sleep to the probe only when using_atlas is false.
C12_OnlyProbeConnects ==
    [][/\ (~using_atlas /\ using_atlas') =>
              (monpc = "connect" /\ monpc' = "sync" /\ atlasUp)
       /\ (monpc = "wait" /\ monpc' = "connect") => ~using_atlas]_vars

\* C12 witness: the health monitor's probe has succeeded after save_reading
\* calls made while disconnected.
C12_Witness ==
    /\ started
    /\ monpc = "sync"
    /\ using_atlas
    /\ nSaves > 0
    /\ restarts = 0

\* C13: a local document with synced_to_atlas = True is there, with
\* synced_to_atlas = True, after every step: saves, catch-up syncs, failed
\* probes, reconnects and restarts.
C13_ReplicatedFlagMonotonic ==
    [][\A i \in DOMAIN local_readings :
          local_readings[i].synced_to_atlas =>
              /\ i \in DOMAIN local_readings'
              /\ local_readings'[i].synced_to_atlas]_vars

\* C13 witness: a document is still marked after a restart and a failed probe.
C13_Witness ==
    /\ restarts = 1
    /\ started
    /\ monpc = "wait"
    /\ ~using_atlas
    /\ \E i \in DOMAIN local_readings : local_readings[i].synced_to_atlas

\* C14: marking a document that is marked already changes nothing and raises
\* nothing: the update_one of save_reading on a document a catch-up sync has
\* marked leaves the whole collection as it was and save_reading returns the
\* id; the update_many of a catch-up sync leaves every document that is
\* marked (by save_reading or otherwise) as it was, changes only
\* synced_to_atlas in the others, and connect_atlas returns.
C14_RemarkIdempotent ==
    [][/\ (acqpc = "mark_synced" /\ acqpc' = "publish" /\ localUp
              /\ local_readings[result].synced_to_atlas) =>
              (local_readings' = local_readings /\ ret' = result)
       /\ (monpc = "sync_mark" /\ monpc' = "wait" /\ localUp) =>
              /\ DOMAIN local_readings' = DOMAIN local_readings
              /\ \A i \in DOMAIN local_readings :
                    local_readings'[i] = [local_readings[i] EXCEPT !.synced_to_atlas = TRUE]]_vars

\* C14 witness: save_reading has marked a document that the catch-up sync had
\* marked before it.
C14_Witness ==
    /\ acqpc = "publish"
    /\ remarked
    /\ ret = result
    /\ local_readings[result].synced_to_atlas

\* the store get_latest_readings reads
stored == IF local_mongo_db THEN local_readings ELSE simulation_data

\* C15: in the state in which save_reading returns an id (and, in the
\* MongoDB-backed mode, the local store answers), get_latest_readings(1)
\* returns exactly one document and its sensor fields are those of the
\* reading just saved; in both modes, whatever saves and reads came before.
C15_SaveThenLatestRoundTrip ==
    [][(acqpc # "publish" /\ acqpc' = "publish" /\ ret' # None
            /\ (local_mongo_db' => localUp')) =>
          /\ Len(get_latest_readings(1)') = 1
          /\ get_latest_readings(1)'[1].value = sensor_data']_vars

\* C16: get_latest_readings(limit) returns min(limit, number of stored
\* documents) documents, and they are the most recently saved ones, newest
\* first; in both modes, whatever saves and reads came before.
C16_LatestNewestFirst ==
    (started /\ (local_mongo_db => localUp)) =>
        \A limit \in Limits :
            LET got == get_latest_readings(limit)
            IN  /\ Len(got) = Min(limit, Len(stored))
                /\ \A i \in DOMAIN got :
                      got[i].server_timestamp = stored[Len(stored) + 1 - i].server_timestamp

\* C17: with the local store answering, get_historical_data(hours) returns
\* the stored documents of the last `hours` hours, oldest first.
C17_HistoryOldestFirst ==
    (started /\ local_mongo_db /\ localUp) =>
        \A hours \in Hours :
            LET got == get_historical_data(hours, HistoryLimit)
            IN  /\ {got[i].id : i \in DOMAIN got} =
                       {local_readings[k].id : k \in {n \in DOMAIN local_readings :
                            local_readings[n].server_timestamp >= now - hours}}
                /\ \A i, j \in DOMAIN got :
                      i < j => got[i].server_timestamp <= got[j].server_timestamp

\* C18: the in-memory buffer has a maximum record count that save_reading
\* calls cannot exceed; stated for a maximum below the number of
\* save_reading calls of a behaviour, the only maximum a bounded number of
\* calls could exceed.
C18_FallbackBufferBounded ==
    Len(simulation_data) < MaxSaves

\* C18, why no maximum exists: every save_reading in the in-memory mode
\* makes the buffer one document longer and keeps every document it held.
C18_FallbackSaveAppends ==
    [][(acqpc = "idle" /\ acqpc' = "publish" /\ ~local_mongo_db) =>
          /\ Len(simulation_data') = Len(simulation_data) + 1
          /\ \A i \in DOMAIN simulation_data : simulation_data'[i] = simulation_data[i]]_vars

\* C19: when the local store was reachable at startup and the local insert of
\* a save_reading raised, save_reading returns an id and the reading of the
\* cycle is in the in-memory buffer.
C19_RuntimeLocalFaultFallsBack ==
    (acqpc = "publish" /\ local_mongo_db /\ ~local_available) =>
        /\ ret # None
        /\ \E i \in DOMAIN simulation_data :
              /\ simulation_data[i].value = sensor_data
              /\ simulation_data[i].server_timestamp = now - 1

\* C20: a tick of auto_control_environment on a reading with water_level < 15
\* calls control_fogger(True, ...) in no actuator state, however low the
\* humidity.
C20_LowWaterNoFoggerOn ==
    sensor_data.water_level < 15 =>
        \A i \in DOMAIN commands.control_fogger : ~commands.control_fogger[i][1]

\* C20 witness: a tick has processed a reading with water_level < 15 and
\* humidity below humidity_min - 5 with the fogger off, and called nothing
\* on the fogger.
C20_Witness ==
    /\ current_hour \in HourValues
    /\ sensor_data.water_level < 15
    /\ sensor_data.humidity < humidity_min - 5
    /\ commands.control_fogger = <<>>
    /\ ~fogger_active

\* C21: after a tick of auto_control_environment on a reading with
\* water_level < 15, fogger_active is false, whatever the humidity and the
\* fogger state before, in the simulated and in the hardware variant.
C21_LowWaterFoggerOff ==
    [][\A fault \in Faults :
          (sensor_data'.water_level < 15 /\ Tick(sensor_data', current_hour', fault)) =>
              ~fogger_active']_vars

\* C21, amended: the same, for the ticks in which the device call of
\* control_fogger(False) does not raise; when it raises, fogger_active keeps
\* its value.
C21_LowWaterFoggerOffUnlessFault ==
    [][\A fault \in Faults :
          (sensor_data'.water_level < 15 /\ Tick(sensor_data', current_hour', fault)) =>
              IF fault.fogger THEN fogger_active' = fogger_active
                              ELSE ~fogger_active']_vars

\* C21 witness: on the hardware variant a tick on a reading with
\* water_level < 15 has switched an active fogger off.
C21_Witness ==
    /\ hardware
    /\ sensor_data.water_level < 15
    /\ commands.control_fogger = << <<FALSE, None>> >>
    /\ ~fogger_active

\* C22: a tick calls control_fogger(True, ...) only if humidity <
\* humidity_min - 5, water_level > 20 and fogger_active is false when the
\* tick starts; when the three hold it makes exactly one call on the fogger,
\* control_fogger(True, fogger_duration).  (Stated as: a step on which this
\* fails is not a tick.)
C22_FoggerOnRule ==
    [][LET three == /\ sensor_data'.humidity < humidity_min - 5
                    /\ sensor_data'.water_level > 20
                    /\ ~fogger_active
           calls == commands'.control_fogger
       IN  \/ /\ (\E i \in DOMAIN calls : calls[i][1]) => three
              /\ three => calls = << <<TRUE, fogger_duration>> >>
           \/ \A fault \in Faults : ~Tick(sensor_data', current_hour', fault)]_vars

\* C22 witness: a tick has switched the fogger on.
C22_Witness ==
    /\ sensor_data.humidity < humidity_min - 5
    /\ sensor_data.water_level > 20
    /\ commands.control_fogger = << <<TRUE, fogger_duration>> >>
    /\ fogger_active

\* C23: the fogger a tick has switched on goes off by itself once
\* fogger_duration has elapsed, in both variants: the tick leaves a timer
\* pending, the only thing that switches the fogger off without a further
\* command.  (Stated as: a step on which this fails is not a tick.)
C23_AutoOffScheduled ==
    [][\/ (/\ ~fogger_active
           /\ fogger_active'
           /\ commands'.control_fogger = << <<TRUE, fogger_duration>> >>) =>
              timers' = timers + 1
       \/ \A fault \in Faults : ~Tick(sensor_data', current_hour', fault)]_vars

\* C24: a timer started before the last deactivation of the fogger has no
\* effect when it fires: it does not switch off the activation that followed.
C24_StaleTimerHasNoEffect ==
    [][\A fault \in DeviceFaults :
          TimerFire(TRUE, fault) => fogger_active' = fogger_active]_vars

\* C25: fan hysteresis.  A tick on a reading above humidity_max + 5 with the
\* fan off calls control_fan(50); a tick on a reading in
\* (humidity_max, humidity_max + 5] makes no call on the fan and leaves
\* fan_speed as it was; a tick on a reading at or below humidity_max with the
\* fan on calls control_fan(0); and the speed of a call whose device call did
\* not raise is the fan_speed after the tick.  (Stated as: a step on which
\* this fails is not a tick.)
C25_FanHysteresis ==
    [][LET h == sensor_data'.humidity
           calls == commands'.control_fan
       IN  /\ \/ /\ (h > humidity_max + 5 /\ fan_speed = 0) => calls = <<50>>
                 /\ (humidity_max < h /\ h <= humidity_max + 5) =>
                        (calls = <<>> /\ fan_speed' = fan_speed)
                 /\ (h <= humidity_max /\ fan_speed > 0) => calls = <<0>>
              \/ \A fault \in Faults : ~Tick(sensor_data', current_hour', fault)
           /\ \A fault \in Faults :
                 (calls # <<>> /\ fan_speed' # calls[1] /\ ~fault.fan) =>
                     ~Tick(sensor_data', current_hour', fault)]_vars

\* C25 witness: the fan was switched to 50 by a tick, and the last tick, on a
\* reading inside the band, has made no call on the fan.
C25_Witness ==
    /\ fan_speed = 50
    /\ humidity_max < sensor_data.humidity
    /\ sensor_data.humidity <= humidity_max + 5
    /\ commands.control_fan = <<>>

\* fan_speed_levels (config.py 55)
fan_speed_levels == {0, 50, 75, 100}

\* C26: fan_speed is always one of the values of fan_speed_levels.
C26_FanSpeedEnumerated ==
    fan_speed \in fan_speed_levels

\* C27: a tick calls control_lights only when lights_active differs from
\* on_hour <= current_hour < off_hour, with that value as argument, and after
\* a tick whose device call did not raise lights_active equals it.  (Stated
\* as: a step on which this fails is not a tick.)
C27_LightsFollowWindow ==
    [][LET window == on_hour <= current_hour' /\ current_hour' < off_hour
           calls == commands'.control_lights
       IN  /\ \/ calls # <<>> => (lights_active # window /\ calls = <<window>>)
              \/ \A fault \in Faults : ~Tick(sensor_data', current_hour', fault)
           /\ \A fault \in Faults :
                 (lights_active' # window /\ ~fault.lights) =>
                     ~Tick(sensor_data', current_hour', fault)]_vars

\* C27 witness: a tick at off_hour has switched the lights off.
C27_Witness ==
    /\ current_hour = off_hour
    /\ commands.control_lights = <<FALSE>>
    /\ ~lights_active

\* C28: heater_active is never true.
C28_HeaterNeverActive ==
    ~heater_active

\* C28 witness: fogger, fan and lights have all been driven, a timer is
\* pending, and the heater flag is still false.
C28_Witness ==
    /\ ~heater_active
    /\ fogger_active
    /\ lights_active
    /\ fan_speed = 75
    /\ timers > 0
    /\ commands.control_lights # <<>>

\* C29: a cycle that raised does not end the loop.  After the except branch
\* a new cycle begins, and as long as the bound on the cycles is not reached
\* a further cycle comes to its save_reading.
C29_LoopNeverEnds ==
    /\ (acqpc = "backoff" /\ nSaves < MaxSaves) ~> (acqpc = "control")
    /\ \A k \in 0..(MaxSaves - 1) : (nSaves = k) ~> (nSaves = k + 1)

\* C29 witness: without a restart, a new cycle has read its sensors after a
\* cycle whose emit raised (no status_update was sent since the last save).
C29_Witness ==
    /\ restarts = 0
    /\ nSaves >= 1
    /\ acqpc = "control"
    /\ status_update = {}

\* the stage of a cycle of sensor_monitor (app.py 954-985): 0 before
\* get_sensor_data, 1 before auto_control_environment, 2 in save_reading,
\* 3 at the emits
stage(pc) ==
    CASE pc \in {"idle", "backoff"} -> 0
      [] pc = "control" -> 1
      [] pc \in {"save", "check_atlas", "atlas_insert", "mark_synced"} -> 2
      [] pc = "publish" -> 3

\* C30: within one process the thread goes through read, control, save and
\* publish in this order; save_reading is entered only from the save stage,
\* once, right after the control stage; documents are created in the local
\* store by that step only, one at a time, and always when the local store is
\* connected and reachable.
C30_OneSavePerCycle ==
    [][/\ restarts' = restarts =>
              /\ stage(acqpc') \in {stage(acqpc), (stage(acqpc) + 1) % 4}
              /\ acqpc' = "save" => acqpc \in {"control", "save"}
              /\ (acqpc = "save" /\ acqpc' # "save") => nSaves' = nSaves + 1
              /\ (acqpc = "save" /\ acqpc' # "save" /\ local_mongo_db /\ localUp) =>
                     Len(local_readings') = Len(local_readings) + 1
       /\ nSaves' # nSaves => (acqpc = "save" /\ acqpc' # "save")
       /\ Len(local_readings') # Len(local_readings) =>
              /\ acqpc = "save" /\ acqpc' # "save"
              /\ Len(local_readings') = Len(local_readings) + 1]_vars

\* C30 witness: two cycles have run to their end with the local store
\* available, auto-control has acted, and the local store holds two documents.
C30_Witness ==
    /\ nSaves = 2
    /\ acqpc = "idle"
    /\ status_update # {}
    /\ fogger_active
    /\ Len(local_readings) = 2

\* C31: a forward to Atlas that raises does not fail the cycle.  The step in
\* which it raises ends save_reading with the local id as return value, the
\* thread being at its emits; from there the cycle can send its status_update
\* and go to its normal sleep; and if it ends otherwise than by a restart, it
\* ends there or in the except branch that an emit has sent it to.
C31_ReplicaFaultContained ==
    /\ [][(acqpc = "atlas_insert" /\ atlas_save' = "failed") =>
              (acqpc' = "publish" /\ ret' = result /\ ret' # None)]_vars
    /\ [](acqpc = "publish" /\ atlas_save = "failed" =>
              ENABLED (Publish /\ acqpc' = "idle" /\ status_update' # {}))

\* C31 witness: the cycle whose forward raised has sent its status_update and
\* is in the sleep of SENSOR_READ_INTERVAL.
C31_Witness ==
    /\ atlas_save = "failed"
    /\ acqpc = "idle"
    /\ status_update # {}
    /\ ret = result
    /\ ret # None

\* C32: on the hardware, a field whose read fails on a call of read_sensors
\* has in the reading returned the value of the most recent successful read
\* of that field, which is its value in the reading returned by the call
\* before (the default of __init__ before the first call).
C32_LastKnownValue ==
    [][\A raw \in RawReadings, failed \in SensorFaults :
          ReadHardware(raw, failed) =>
              /\ failed.scd40 =>
                    /\ sensor_data'.temperature = sensor_data.temperature
                    /\ sensor_data'.humidity = sensor_data.humidity
                    /\ sensor_data'.co2 = sensor_data.co2
              /\ failed.bh1750 =>
                    sensor_data'.light_intensity = sensor_data.light_intensity
              /\ failed.ultrasonic =>
                    sensor_data'.water_level = sensor_data.water_level]_vars

\* C33: in a tick of auto_control_environment, the field of a device whose
\* call raised keeps its value (and no timer is started for a fogger that was
\* not switched on), the field of a device that was not called keeps its
\* value, heater_active keeps its value, and the thread goes on to
\* save_reading, which it can always enter.
C33_ActuatorFaultContained ==
    /\ [][\A hour \in HourValues, fault \in Faults :
             ControlTick(hour, fault) =>
                 /\ (fault.fogger \/ commands'.control_fogger = <<>>) =>
                        (fogger_active' = fogger_active /\ timers' = timers)
                 /\ (fault.fan \/ commands'.control_fan = <<>>) =>
                        fan_speed' = fan_speed
                 /\ (fault.lights \/ commands'.control_lights = <<>>) =>
                        lights_active' = lights_active
                 /\ heater_active' = heater_active
                 /\ acqpc' = "save"]_vars
    /\ [](acqpc = "save" => ENABLED SaveLocal)

\* C33 witness: the call of control_lights(True) of a cycle raised on the
\* device, the lights are still off, and the cycle has saved its reading and
\* sent its status_update.
C33_Witness ==
    /\ hardware
    /\ commands.control_lights = <<TRUE>>
    /\ ~lights_active
    /\ acqpc = "idle"
    /\ status_update # {}
    /\ Len(local_readings) = nSaves
    /\ nSaves > 0

\* C34: when connect_atlas returns after an insert of its catch-up sync
\* raised, using_atlas is false.
C34_FailedCatchUpDisconnects ==
    [][(monpc = "sync_insert" /\ monpc' = "wait") => ~using_atlas']_vars

\* C35: a call of save_reading of database_service.py whose Atlas insert
\* raises clears using_atlas, and still writes to a local store that is
\* configured and answers, returning True; every call returns True if the
\* local store has one more document and False if it has not; without a
\* local store it returns False and the local store is as it was.
C35_StandaloneSave ==
    [][nSaves' # nSaves =>
          /\ (using_atlas /\ atlas_mongo_db /\ ~atlasUp) =>
                /\ ~using_atlas'
                /\ (local_mongo_db /\ localUp) =>
                      (Len(local_readings') = Len(local_readings) + 1 /\ ret' = "True")
          /\ ret' \in {"True", "False"}
          /\ ret' = "True" <=> Len(local_readings') = Len(local_readings) + 1
          /\ ret' = "False" <=> local_readings' = local_readings
          /\ ~local_mongo_db => (ret' = "False" /\ local_readings' = local_readings)]_vars

\* C35 witness: the only call so far had using_atlas true, its Atlas insert
\* raised, and it wrote the reading to the local store and returned True.
C35_Witness ==
    /\ nSaves = 1
    /\ atlas_mongo_db
    /\ ~using_atlas
    /\ atlas_readings = <<>>
    /\ Len(local_readings) = 1
    /\ ret = "True"

\* C36: a catch-up sync changes no document of the local store before its
\* update_many: neither its find, nor an insert that succeeds, nor the insert
\* that raises and ends it.  The documents it has inserted into Atlas before
\* the failure keep synced_to_atlas = False.
C36_FailedCatchUpMarksNothing ==
    [][(/\ monpc \in {"sync", "sync_insert"}
        /\ (monpc' # monpc \/ sync_i' # sync_i)
        /\ restarts' = restarts) =>
            local_readings' = local_readings]_vars

\* C36 witness: in one run of the process a catch-up sync has found two
\* documents, inserted one into Atlas, and ended on the second insert; both
\* still have synced_to_atlas = False (neither save forwarded anything).
C36_Witness ==
    /\ restarts = 0
    /\ monpc = "wait"
    /\ using_atlas
    /\ nSaves = 2
    /\ acqpc = "idle"
    /\ atlas_save = "none"
    /\ Cardinality(Unsynced(local_readings)) = 2
    /\ Len(atlas_readings) = 1
    /\ atlas_readings[1] \in Unsynced(local_readings)

\* C37: a call of get_latest_readings leaves every stored document as it
\* was, in the MongoDB-backed mode and in the in-memory mode.
C37_ReadsArePure ==
    [][\A limit \in Limits :
          GetLatest(limit) =>
              /\ local_readings' = local_readings
              /\ simulation_data' = simulation_data]_vars

\* C38: a tick on a reading with 15 <= water_level <= 20 makes no call on
\* the fogger and leaves fogger_active and the timers as they were, whatever
\* the humidity and the state of the fogger.  (Stated as: a step on which
\* this fails is not a tick.)
C38_MidWaterFoggerUntouched ==
    [][(15 <= sensor_data'.water_level /\ sensor_data'.water_level <= 20) =>
          \/ /\ commands'.control_fogger = <<>>
             /\ fogger_active' = fogger_active
             /\ timers' = timers
          \/ \A fault \in Faults : ~Tick(sensor_data', current_hour', fault)]_vars

\* C38 witness: a tick on a reading with water_level 15 and a humidity under
\* humidity_min - 5 has left an active fogger on.
C38_Witness ==
    /\ sensor_data.water_level = 15
    /\ sensor_data.humidity < humidity_min - 5
    /\ commands.control_fogger = <<>>
    /\ current_hour \in HourValues
    /\ fogger_active

====
